---- MODULE Spec2Model ----
(***************************************************************************)
(* Feature-flagging service: the FeatureFlag entity (src/model/flag.rs),   *)
(* its evaluation and rollout operations, and the hoist/lower request      *)
(* handlers (src/main.rs) that load a flag from the store, mutate it and   *)
(* write it back (src/controller/database).                                *)
(*                                                                         *)
(* Six specifications:                                                     *)
(*   Spec        the flag engine: one in-memory FeatureFlag value on which *)
(*               evaluate, hoist and lower are applied;                    *)
(*   SpecSrv     the hoist/lower and check handlers running concurrently   *)
(*               on the store;                                             *)
(*   SpecAdmin   the create_flag handler filling the store;                *)
(*   SpecBuilder chains of setter calls on a FeatureFlagBuilder;           *)
(*   SpecSeq     bounded sequences of hoist and lower calls on a flag;     *)
(*   SpecAuth    login, logout and the UserAuth guard on the token table.  *)
(***************************************************************************)
EXTENDS Integers, Sequences, FiniteSets, TLC

\* ------------------------------------------------------------------ bounds
NumUsers == 2
MaxAllow == 1
MaxInitDisabled == 1
MaxDisabled == 3
NumReqs == 2
MaxStarted == 2
MaxFlags == 2

\* --------------------------------------------------------------- encodings
\* Option<T>: None is the empty sequence, Some(x) the one-element sequence.
None == <<>>
Some(x) == <<x>>

\* ObjectId::to_hex: an ObjectId is modelled as a small natural number and
\* its hex form as the sequence of its hexadecimal digits (two digits here).
to_hex(oid) == <<(oid \div 16) % 16, oid % 16>>

\* ObjectId::parse_str: Some(oid) for a well-formed hex string, None (the Err
\* case) otherwise.
parse_str(hex) ==
  IF Len(hex) = 2 /\ \A i \in 1..2 : hex[i] \in 0..15
  THEN Some(16 * hex[1] + hex[2])
  ELSE None

\* User identifiers as the engine sees them: hex strings of user ObjectIds.
UserIds == {to_hex(i) : i \in 1..NumUsers}
UserArgs == {None} \cup {Some(u) : u \in UserIds}

\* Vec::contains
Contains(vec, x) == \E i \in 1..Len(vec) : vec[i] = x

\* All sequences over S of length at most n
RECURSIVE SeqsUpTo(_, _)
SeqsUpTo(S, n) ==
  IF n = 0 THEN {<<>>}
  ELSE LET shorter == SeqsUpTo(S, n - 1)
       IN shorter \cup {Append(s, x) : s \in {t \in shorter : Len(t) = n - 1}, x \in S}

\* ------------------------------------------------------------ ReleaseType
Global == [kind |-> "Global"]
Limited(allowlist) == [kind |-> "Limited", allowlist |-> allowlist]
Percentage(fraction, allowlist) ==
  [kind |-> "Percentage", fraction |-> fraction, allowlist |-> allowlist]

\* f32 fractions, in hundredths
Fractions == {0, 50, 100}
AllowLists == SeqsUpTo(UserIds, MaxAllow)
ReleaseTypes ==
  {Global} \cup {Limited(a) : a \in AllowLists}
           \cup {Percentage(f, a) : f \in Fractions, a \in AllowLists}

\* ------------------------------------------------------------ FeatureFlag
FeatureFlag(oid, name, product_id, enabled, client_toggle, disabled_for, release_type) ==
  [oid |-> oid, name |-> name, product_id |-> product_id, enabled |-> enabled,
   client_toggle |-> client_toggle, disabled_for |-> disabled_for,
   release_type |-> release_type]

FeatureFlag_default ==
  FeatureFlag(None, "default_flag", "default_product", FALSE, FALSE, <<>>, Global)

\* hoist that removes only the first occurrence of the user
RECURSIVE RemoveFirst(_, _)
RemoveFirst(vec, x) ==
  IF vec = <<>> THEN <<>>
  ELSE IF Head(vec) = x THEN Tail(vec)
  ELSE <<Head(vec)>> \o RemoveFirst(Tail(vec), x)

FeatureFlag_hoist_first_only(self, user_id) ==
  IF user_id # None
  THEN [self EXCEPT !.disabled_for = RemoveFirst(self.disabled_for, user_id[1])]
  ELSE [self EXCEPT !.enabled = TRUE]

\* hoist that resets the per-user overrides on a global enable
FeatureFlag_hoist_clears(self, user_id) ==
  IF user_id # None
  THEN [self EXCEPT !.disabled_for = SelectSeq(self.disabled_for, LAMBDA x : x # user_id[1])]
  ELSE [self EXCEPT !.enabled = TRUE, !.disabled_for = <<>>]

\* hoist that switches the flag on whatever the user argument is
FeatureFlag_hoist_always_enables(self, user_id) ==
  IF user_id # None
  THEN [self EXCEPT !.enabled = TRUE,
                    !.disabled_for = SelectSeq(self.disabled_for, LAMBDA x : x # user_id[1])]
  ELSE [self EXCEPT !.enabled = TRUE]

\* hoist that puts the user on the allow-list of a user-scoped strategy
FeatureFlag_hoist_grants(self, user_id) ==
  IF user_id # None
  THEN [self EXCEPT !.disabled_for = SelectSeq(self.disabled_for, LAMBDA x : x # user_id[1]),
                    !.release_type =
                       IF self.release_type.kind = "Global" THEN @
                       ELSE [@ EXCEPT !.allowlist = Append(@, user_id[1])]]
  ELSE [self EXCEPT !.enabled = TRUE]

\* FeatureFlag::hoist
FeatureFlag_hoist(self, user_id) ==
  IF user_id # None
  THEN [self EXCEPT !.disabled_for = SelectSeq(self.disabled_for, LAMBDA x : x # user_id[1])]
  ELSE [self EXCEPT !.enabled = TRUE]

\* lower that puts the user in front of the list
FeatureFlag_lower_prepends(self, user_id) ==
  IF user_id # None
  THEN [self EXCEPT !.disabled_for = <<user_id[1]>> \o self.disabled_for]
  ELSE [self EXCEPT !.enabled = FALSE]

\* FeatureFlag::lower
FeatureFlag_lower(self, user_id) ==
  IF user_id # None
  THEN [self EXCEPT !.disabled_for = Append(self.disabled_for, user_id[1])]
  ELSE [self EXCEPT !.enabled = FALSE]

\* evaluate mutants: the strategy dispatch with one rule changed
evaluate_with(self, user_id, check_enabled, check_disabled, check_allow, anon_limited, use_fraction) ==
  LET on == IF check_enabled THEN self.enabled ELSE TRUE
      off(u) == check_disabled /\ Contains(self.disabled_for, u)
      listed(u) == IF check_allow THEN Contains(self.release_type.allowlist, u) ELSE TRUE
  IN IF ~on THEN FALSE
     ELSE CASE self.release_type.kind = "Global" ->
                 IF user_id # None THEN ~off(user_id[1]) ELSE TRUE
            [] self.release_type.kind = "Limited" ->
                 IF user_id # None THEN ~off(user_id[1]) /\ listed(user_id[1])
                 ELSE anon_limited
            [] self.release_type.kind = "Percentage" ->
                 IF user_id # None
                 THEN ~off(user_id[1])
                      /\ (listed(user_id[1]) \/ (use_fraction /\ self.release_type.fraction = 100))
                 ELSE anon_limited

\* the global switch is not consulted
FeatureFlag_evaluate_ignores_enabled(self, user_id) ==
  evaluate_with(self, user_id, FALSE, TRUE, TRUE, FALSE, FALSE)

\* the per-user opt-out is not consulted
FeatureFlag_evaluate_ignores_disabled(self, user_id) ==
  evaluate_with(self, user_id, TRUE, FALSE, TRUE, FALSE, FALSE)

\* the allow-list is not consulted
FeatureFlag_evaluate_ignores_allowlist(self, user_id) ==
  evaluate_with(self, user_id, TRUE, TRUE, FALSE, FALSE, FALSE)

\* the Global strategy requires a user
FeatureFlag_evaluate_global_needs_user(self, user_id) ==
  IF self.release_type.kind = "Global" /\ user_id = None THEN FALSE
  ELSE evaluate_with(self, user_id, TRUE, TRUE, TRUE, FALSE, FALSE)

\* an anonymous check passes the user-scoped strategies
FeatureFlag_evaluate_anonymous_passes(self, user_id) ==
  evaluate_with(self, user_id, TRUE, TRUE, TRUE, TRUE, FALSE)

\* a full-rollout fraction opens the Percentage strategy to everyone
FeatureFlag_evaluate_uses_fraction(self, user_id) ==
  evaluate_with(self, user_id, TRUE, TRUE, TRUE, FALSE, TRUE)

\* with client_toggle set, the user-scoped strategies stay off
FeatureFlag_evaluate_uses_client_toggle(self, user_id) ==
  IF self.client_toggle /\ self.release_type.kind # "Global" THEN FALSE
  ELSE evaluate_with(self, user_id, TRUE, TRUE, TRUE, FALSE, FALSE)

\* FeatureFlag::evaluate
FeatureFlag_evaluate(self, user_id) ==
  IF ~self.enabled THEN FALSE
  ELSE CASE self.release_type.kind = "Global" ->
              IF user_id # None
              THEN (IF Contains(self.disabled_for, user_id[1]) THEN FALSE ELSE self.enabled)
              ELSE self.enabled
         [] self.release_type.kind = "Limited" ->
              IF user_id # None
              THEN (IF Contains(self.disabled_for, user_id[1]) THEN FALSE
                    ELSE IF Contains(self.release_type.allowlist, user_id[1]) THEN self.enabled
                    ELSE FALSE)
              ELSE FALSE
         [] self.release_type.kind = "Percentage" ->
              IF user_id # None
              THEN (IF Contains(self.disabled_for, user_id[1]) THEN FALSE
                    ELSE IF Contains(self.release_type.allowlist, user_id[1]) THEN self.enabled
                    ELSE FALSE)
              ELSE FALSE

\* ------------------------------------------------------------------ store
\* A stored document: the _id the store assigned at insert_one, and the
\* serialized struct. Serialization skips the oid field when it is None
\* (skip_serializing_if), so body.oid = None stands for "no oid key".
Document(id, body) == [_id |-> id, body |-> body]

\* Deserialization of a FeatureFlag / User document: the oid field is read
\* from the key "oid" or its alias "_id"; a document carrying both keys is
\* rejected (duplicate field), which surfaces as an Err of the query.
Ok(value) == [ok |-> TRUE, value |-> value]
Err == [ok |-> FALSE, value |-> None]
from_document(doc) ==
  IF doc.body.oid # None THEN Err
  ELSE Ok([doc.body EXCEPT !.oid = Some(doc._id)])

\* a doc! filter is a record of the key/value pairs a document must carry
Matches(doc, filter) == \A key \in DOMAIN filter : doc.body[key] = filter[key]

\* Collection::find_one: the first document matching the filter, deserialized
find_one(collection, filter) ==
  LET hits == {i \in 1..Len(collection) : Matches(collection[i], filter)}
  IN IF hits = {} THEN Ok(None)
     ELSE LET first == CHOOSE i \in hits : \A j \in hits : i <= j
              parsed == from_document(collection[first])
          IN IF parsed.ok THEN Ok(Some(parsed.value)) ELSE Err

\* replace_one that filters on a key no stored document matches
replace_one_wrong_key(collection, id, updated) == collection

\* Collection::replace_one with the query {"_id": id}: the first document
\* with that _id gets the serialized replacement as its body and keeps its _id
replace_one(collection, id, updated) ==
  LET hits == {i \in 1..Len(collection) : collection[i]._id = id}
  IN IF hits = {} THEN collection
     ELSE LET first == CHOOSE i \in hits : \A j \in hits : i <= j
          IN [collection EXCEPT ![first] = Document(collection[first]._id, updated)]

\* mongo::get_feature_flag; db_ok = FALSE is a driver error
mongo_get_feature_flag(collection, product_id, flag_name, db_ok) ==
  IF ~db_ok THEN Err
  ELSE find_one(collection, [name |-> flag_name, product_id |-> product_id])

\* ConnectionManager::get_feature_flag: any error becomes None
get_feature_flag(collection, product_id, flag_name, db_ok) ==
  LET result == mongo_get_feature_flag(collection, product_id, flag_name, db_ok)
  IN IF result.ok THEN result.value ELSE None

\* mongo::update_feature_flag: the collection after the call and its Result
mongo_update_feature_flag(collection, feature_flag_id, updated, db_ok) ==
  IF ~db_ok THEN [ok |-> FALSE, collection |-> collection]
  ELSE [ok |-> TRUE, collection |-> replace_one(collection, feature_flag_id, updated)]

\* ConnectionManager::update_feature_flag: parses the id, false on any error
update_feature_flag(collection, feature_flag_id, updated, db_ok) ==
  LET id == parse_str(feature_flag_id)
  IN IF id = None THEN [ok |-> FALSE, collection |-> collection]
     ELSE mongo_update_feature_flag(collection, id[1], updated, db_ok)

\* ------------------------------------------------------ FeatureFlagBuilder
\* FeatureFlagBuilder::default: the fields of FeatureFlag::default
FeatureFlagBuilder_default == FeatureFlag_default

with_oid(builder, oid) == [builder EXCEPT !.oid = Some(oid)]
with_name(builder, name) == [builder EXCEPT !.name = name]
with_product_id(builder, product_id) == [builder EXCEPT !.product_id = product_id]
with_enabled(builder, enabled) == [builder EXCEPT !.enabled = enabled]
with_client_toggle(builder, client_toggle) == [builder EXCEPT !.client_toggle = client_toggle]
with_disabled_for(builder, disabled_for) == [builder EXCEPT !.disabled_for = disabled_for]

\* with_release_type that keeps a strategy set by an earlier call
with_release_type_keeps_first(builder, release_type) ==
  IF builder.release_type = Global THEN [builder EXCEPT !.release_type = release_type]
  ELSE builder

with_release_type(builder, release_type) == [builder EXCEPT !.release_type = release_type]

\* FeatureFlagBuilder::build
build(builder) ==
  FeatureFlag(builder.oid, builder.name, builder.product_id, builder.enabled,
              builder.client_toggle, builder.disabled_for, builder.release_type)

\* the ObjectId the store generates for an inserted document: a fresh one
fresh_id(collection) ==
  IF collection = <<>> THEN 1
  ELSE 1 + (CHOOSE m \in {collection[i]._id : i \in 1..Len(collection)} :
              \A i \in 1..Len(collection) : collection[i]._id <= m)

\* Collection::insert_one: the document is appended under a generated _id
insert_one(collection, body) == Append(collection, Document(fresh_id(collection), body))

\* create_flag that gives the built flag its id before it is stored
mongo_create_flag_ids_first(collection, flag_builder, db_ok) ==
  IF ~db_ok THEN [ok |-> FALSE, value |-> None, collection |-> collection]
  ELSE LET flag == build(with_oid(flag_builder, fresh_id(collection)))
       IN [ok |-> TRUE, value |-> flag, collection |-> insert_one(collection, flag)]

\* mongo::create_flag: inserts the built flag and returns it with the new id
mongo_create_flag(collection, flag_builder, db_ok) ==
  IF ~db_ok THEN [ok |-> FALSE, value |-> None, collection |-> collection]
  ELSE LET flag_id == fresh_id(collection)
       IN [ok |-> TRUE,
           value |-> build(with_oid(flag_builder, flag_id)),
           collection |-> insert_one(collection, build(flag_builder))]

\* ConnectionManager::create_flag: any error becomes None
db_create_flag(collection, flag_builder, db_ok) ==
  LET result == mongo_create_flag(collection, flag_builder, db_ok)
  IN [value |-> IF result.ok THEN Some(result.value) ELSE None,
      collection |-> result.collection]

\* ------------------------------------------------------------------ users
User(oid, name, account_type, email, password_hash) ==
  [oid |-> oid, name |-> name, account_type |-> account_type, email |-> email,
   password_hash |-> password_hash]

\* the "users" collection: one developer and two clients
UsersCollection ==
  << Document(1, User(None, "client1", "Client", "c1", "h1")),
     Document(2, User(None, "client2", "Client", "c2", "h2")),
     Document(3, User(None, "developer", "Developer", "dev", "h3")) >>

Emails == {"c1", "c2", "dev", "nobody"}

\* mongo::get_user / ConnectionManager::get_user called with an email only
get_user(user_email, db_ok) ==
  LET result == IF ~db_ok THEN Err
                ELSE find_one(UsersCollection, [email |-> user_email])
  IN IF result.ok THEN result.value ELSE None

\* ------------------------------------------------------------------ state
VARIABLES
  flag,      \* the FeatureFlag value the engine operates on
  prev,      \* that value before the last operation
  op,        \* the last operation applied: [name, user_id]
  ret,       \* Some(b) when the last operation was evaluate returning b
  lowered,   \* TRUE from a lower(None) until the next hoist(None)
  origin,    \* the fields of the flag other than enabled and disabled_for, as first seen
  features,  \* the "features" collection of the store: a sequence of documents
  req,       \* the hoist/lower requests in flight, one record per request slot
  writes,    \* the request slots whose replace_one reached the store, in order
  started,   \* number of requests started so far
  reply,     \* the response of the last create_flag request
  builder,   \* the FeatureFlagBuilder value a chain of setter calls is applied to
  calls,     \* the calls made so far on the builder, or on the flag in SpecSeq
  initial,   \* the flag as it was before the calls of SpecSeq
  tokens,    \* AuthTokens.user_tokens: the users with an entry, each with its token list
  issued,    \* the private cookies the server has handed out so far
  logged,    \* the users that logged in with no logout since
  auth       \* the last login, logout or guarded request and its outcome

engine_vars == <<flag, prev, op, ret, lowered, origin>>
server_vars == <<features, req, writes, started, reply>>
builder_vars == <<builder, calls, initial>>
auth_vars == <<tokens, issued, logged, auth>>
vars == <<flag, prev, op, ret, lowered, origin, features, req, writes, started, reply,
          builder, calls, initial, tokens, issued, logged, auth>>

\* FeatureFlag::builder() with no setter called yet
InitBuilderVars ==
  /\ builder = FeatureFlagBuilder_default
  /\ calls = <<>>
  /\ initial = FeatureFlag_default

\* AuthTokens::new: an empty map; nobody has logged in
AuthTokens_new == <<>>
NoAuth == [op |-> "none", user_id |-> None, auth_token |-> None, status |-> 0]
InitAuthVars ==
  /\ tokens = AuthTokens_new
  /\ issued = {}
  /\ logged = {}
  /\ auth = NoAuth

\* no create_flag request has been answered yet
NoReply == [status |-> 0, id |-> <<>>]

\* a request slot with no request running
IdleRequest ==
  [pc |-> "idle", kind |-> "none", product_id |-> "", feature |-> "", user_email |-> "",
   loaded |-> None, flag |-> None, flag_id |-> <<>>, user_id |-> None,
   seen |-> 0, response |-> 0, enabled |-> None, db_ok |-> TRUE]

\* the fields hoist and lower have no assignment to
Frame(f) ==
  [oid |-> f.oid, name |-> f.name, product_id |-> f.product_id,
   client_toggle |-> f.client_toggle, release_type |-> f.release_type]

InitFlags ==
  {FeatureFlag(oid, "flag", "product", e, c, d, r) :
     oid \in {None, Some(1)}, e \in BOOLEAN, c \in BOOLEAN,
     d \in SeqsUpTo(UserIds, MaxInitDisabled), r \in ReleaseTypes}

Init ==
  /\ flag \in InitFlags
  /\ prev = flag
  /\ op = [name |-> "none", user_id |-> None]
  /\ ret = None
  /\ lowered = FALSE
  /\ origin = Frame(flag)
  /\ features = <<>>
  /\ req = [r \in 1..NumReqs |-> IdleRequest]
  /\ writes = <<>>
  /\ started = 0
  /\ reply = NoReply
  /\ InitBuilderVars
  /\ InitAuthVars

\* evaluate that switches the flag off once it has answered false
Evaluate_sticky(user_id) ==
  /\ ret' = Some(FeatureFlag_evaluate(flag, user_id))
  /\ op' = [name |-> "evaluate", user_id |-> user_id]
  /\ prev' = flag
  /\ flag' = [flag EXCEPT !.enabled = FeatureFlag_evaluate(flag, user_id)]
  /\ UNCHANGED <<lowered, origin>>
  /\ UNCHANGED server_vars
  /\ UNCHANGED <<builder_vars, auth_vars>>

Evaluate(user_id) ==
  /\ ret' = Some(FeatureFlag_evaluate(flag, user_id))
  /\ op' = [name |-> "evaluate", user_id |-> user_id]
  /\ prev' = flag
  /\ UNCHANGED <<flag, lowered, origin>>
  /\ UNCHANGED server_vars
  /\ UNCHANGED <<builder_vars, auth_vars>>

Hoist(user_id) ==
  /\ flag' = FeatureFlag_hoist(flag, user_id)
  /\ op' = [name |-> "hoist", user_id |-> user_id]
  /\ prev' = flag
  /\ ret' = None
  /\ lowered' = IF user_id = None THEN FALSE ELSE lowered
  /\ UNCHANGED origin
  /\ UNCHANGED server_vars
  /\ UNCHANGED <<builder_vars, auth_vars>>

Lower(user_id) ==
  /\ Len(flag.disabled_for) < MaxDisabled \/ user_id = None
  /\ flag' = FeatureFlag_lower(flag, user_id)
  /\ op' = [name |-> "lower", user_id |-> user_id]
  /\ prev' = flag
  /\ ret' = None
  /\ lowered' = IF user_id = None THEN TRUE ELSE lowered
  /\ UNCHANGED origin
  /\ UNCHANGED server_vars
  /\ UNCHANGED <<builder_vars, auth_vars>>

Next ==
  \/ \E user_id \in UserArgs : Evaluate(user_id)
  \/ \E user_id \in UserArgs : Hoist(user_id)
  \/ \E user_id \in UserArgs : Lower(user_id)

Spec == Init /\ [][Next]_vars

\* --------------------------------------------------------- request handlers
\* The hoist and lower handlers of main.rs are the same code up to the
\* mutation they apply; each runs as three steps separated by its awaits.
Kinds == {"hoist", "lower"}
FlagNames == {"flag", "missing"}

StoredFlags ==
  {FeatureFlag(None, "flag", "product", e, c, d, r) :
     e \in BOOLEAN, c \in BOOLEAN, d \in {<<>>, <<to_hex(1)>>},
     r \in {Limited(<<to_hex(1)>>)}}

InitSrv ==
  /\ flag = FeatureFlag_default
  /\ prev = flag
  /\ op = [name |-> "none", user_id |-> None]
  /\ ret = None
  /\ lowered = FALSE
  /\ origin = Frame(flag)
  /\ \E body \in StoredFlags : features = <<Document(1, body)>>
  /\ req = [r \in 1..NumReqs |-> IdleRequest]
  /\ writes = <<>>
  /\ started = 0
  /\ reply = NoReply
  /\ InitBuilderVars
  /\ InitAuthVars

Mutate(kind, f, user_id) ==
  IF kind = "hoist" THEN FeatureFlag_hoist(f, user_id) ELSE FeatureFlag_lower(f, user_id)

\* Err(status::BadRequest(None)): the handler returns and drops its locals
BadRequest(this) ==
  [IdleRequest EXCEPT !.pc = "done", !.response = 400, !.kind = this.kind,
                      !.product_id = this.product_id, !.feature = this.feature,
                      !.user_email = this.user_email]

\* hoist / lower, up to the flag id: get_feature_flag and the oid match
patch_get_feature_flag(r, kind, product_id, feature, user_email, db_ok) ==
  /\ req[r].pc = "idle"
  /\ started < MaxStarted
  /\ started' = started + 1
  /\ LET this == [IdleRequest EXCEPT !.kind = kind, !.product_id = product_id,
                                     !.feature = feature, !.user_email = user_email,
                                     !.seen = Len(writes)]
         found == get_feature_flag(features, product_id, feature, db_ok)
     IN req' = [req EXCEPT ![r] =
                  IF found = None THEN BadRequest(this)
                  ELSE IF found[1].oid = None THEN BadRequest(this)
                  ELSE [this EXCEPT !.pc = "get_user", !.loaded = found, !.flag = found,
                                    !.flag_id = to_hex(found[1].oid[1])]]
  /\ UNCHANGED <<features, writes, reply>>
  /\ UNCHANGED engine_vars
  /\ UNCHANGED <<builder_vars, auth_vars>>

\* the account type is not consulted: every request acts on the global switch
patch_get_user_always_global(r, db_ok) ==
  /\ req[r].pc = "get_user"
  /\ LET user == get_user(req[r].user_email, db_ok)
     IN req' = [req EXCEPT ![r] =
                  IF user = None THEN BadRequest(req[r])
                  ELSE [req[r] EXCEPT !.pc = "update", !.user_id = None,
                                      !.flag = Some(Mutate(req[r].kind, req[r].flag[1], None))]]
  /\ UNCHANGED <<features, writes, started, reply>>
  /\ UNCHANGED engine_vars
  /\ UNCHANGED <<builder_vars, auth_vars>>

\* hoist / lower: get_user, the account type match and the mutation
patch_get_user(r, db_ok) ==
  /\ req[r].pc = "get_user"
  /\ LET user == get_user(req[r].user_email, db_ok)
     IN req' = [req EXCEPT ![r] =
                  IF user = None THEN BadRequest(req[r])
                  ELSE IF user[1].account_type = "Developer"
                  THEN [req[r] EXCEPT !.pc = "update", !.user_id = None,
                                      !.flag = Some(Mutate(req[r].kind, req[r].flag[1], None))]
                  ELSE IF user[1].oid = None THEN BadRequest(req[r])
                  ELSE LET user_id == Some(to_hex(user[1].oid[1]))
                       IN [req[r] EXCEPT !.pc = "update", !.user_id = user_id,
                                         !.flag = Some(Mutate(req[r].kind, req[r].flag[1], user_id))]]
  /\ UNCHANGED <<features, writes, started, reply>>
  /\ UNCHANGED engine_vars
  /\ UNCHANGED <<builder_vars, auth_vars>>

\* a save step that answers 202 whether or not the store took the write
patch_update_always_accepted(r, db_ok) ==
  /\ req[r].pc = "update"
  /\ LET result == update_feature_flag(features, req[r].flag_id, req[r].flag[1], db_ok)
     IN /\ features' = result.collection
        /\ writes' = IF result.ok THEN Append(writes, r) ELSE writes
        /\ req' = [req EXCEPT ![r] = [req[r] EXCEPT !.pc = "done", !.response = 202]]
  /\ UNCHANGED <<started, reply>>
  /\ UNCHANGED engine_vars
  /\ UNCHANGED <<builder_vars, auth_vars>>

\* hoist / lower: update_feature_flag and the response
patch_update_feature_flag(r, db_ok) ==
  /\ req[r].pc = "update"
  /\ LET result == update_feature_flag(features, req[r].flag_id, req[r].flag[1], db_ok)
     IN /\ features' = result.collection
        /\ writes' = IF result.ok THEN Append(writes, r) ELSE writes
        /\ req' = [req EXCEPT ![r] =
                     IF result.ok THEN [req[r] EXCEPT !.pc = "done", !.response = 202]
                     ELSE BadRequest(req[r])]
  /\ UNCHANGED <<started, reply>>
  /\ UNCHANGED engine_vars
  /\ UNCHANGED <<builder_vars, auth_vars>>

\* the response has been sent; the slot is free for the next request
patch_respond(r) ==
  /\ req[r].pc = "done"
  /\ started < MaxStarted
  /\ req' = [req EXCEPT ![r] = IdleRequest]
  /\ UNCHANGED <<features, writes, started, reply>>
  /\ UNCHANGED engine_vars
  /\ UNCHANGED <<builder_vars, auth_vars>>

\* the check handler: get_feature_flag, evaluate, and the FlagCheck answer
\* (Some(Json) is a 200, None a 404); it has no other await
check(r, product_id, feature, user, db_ok) ==
  /\ req[r].pc = "idle"
  /\ started < MaxStarted
  /\ started' = started + 1
  /\ LET this == [IdleRequest EXCEPT !.pc = "done", !.kind = "check",
                                     !.product_id = product_id, !.feature = feature,
                                     !.user_id = user, !.db_ok = db_ok]
         response == get_feature_flag(features, product_id, feature, db_ok)
     IN req' = [req EXCEPT ![r] =
                  IF response = None THEN [this EXCEPT !.response = 404, !.user_id = None]
                  ELSE [this EXCEPT !.response = 200,
                          !.enabled = Some(FeatureFlag_evaluate(response[1], user))]]
  /\ UNCHANGED <<features, writes, reply>>
  /\ UNCHANGED engine_vars
  /\ UNCHANGED <<builder_vars, auth_vars>>

NextSrv ==
  \/ \E r \in 1..NumReqs, kind \in Kinds, feature \in FlagNames, user_email \in Emails,
        db_ok \in BOOLEAN :
       patch_get_feature_flag(r, kind, "product", feature, user_email, db_ok)
  \/ \E r \in 1..NumReqs, db_ok \in BOOLEAN : patch_get_user(r, db_ok)
  \/ \E r \in 1..NumReqs, db_ok \in BOOLEAN : patch_update_feature_flag(r, db_ok)
  \/ \E r \in 1..NumReqs : patch_respond(r)
  \/ \E r \in 1..NumReqs, feature \in FlagNames, user \in UserArgs, db_ok \in BOOLEAN :
       check(r, "product", feature, user, db_ok)

SpecSrv == InitSrv /\ [][NextSrv]_vars

\* ------------------------------------------------------------ create_flag
CreatableReleaseTypes == {Global, Limited(<<to_hex(1)>>)}

InitAdmin ==
  /\ flag = FeatureFlag_default
  /\ prev = flag
  /\ op = [name |-> "none", user_id |-> None]
  /\ ret = None
  /\ lowered = FALSE
  /\ origin = Frame(flag)
  /\ features = <<>>
  /\ req = [r \in 1..NumReqs |-> IdleRequest]
  /\ writes = <<>>
  /\ started = 0
  /\ reply = NoReply
  /\ InitBuilderVars
  /\ InitAuthVars

\* the create_flag handler of main.rs. token_auth is the outcome of the
\* UserAuth request guard: on failure the handler body does not run.
create_flag(name, product_id, enabled, client_toggle, release_type, token_auth, db_ok) ==
  /\ Len(features) < MaxFlags
  /\ IF ~token_auth
     THEN /\ reply' = [status |-> 400, id |-> <<>>]
          /\ UNCHANGED features
     ELSE LET flag_builder ==
                with_release_type(
                  with_client_toggle(
                    with_enabled(
                      with_product_id(with_name(FeatureFlagBuilder_default, name), product_id),
                      enabled),
                    client_toggle),
                  release_type)
              created == db_create_flag(features, flag_builder, db_ok)
          IN /\ features' = created.collection
             /\ reply' = IF created.value = None THEN [status |-> 400, id |-> <<>>]
                         ELSE IF created.value[1].oid = None THEN [status |-> 400, id |-> <<>>]
                         ELSE [status |-> 201, id |-> to_hex(created.value[1].oid[1])]
  /\ UNCHANGED <<req, writes, started>>
  /\ UNCHANGED engine_vars
  /\ UNCHANGED <<builder_vars, auth_vars>>

NextAdmin ==
  \E name \in FlagNames, enabled \in BOOLEAN, client_toggle \in BOOLEAN,
     release_type \in CreatableReleaseTypes, token_auth \in BOOLEAN, db_ok \in BOOLEAN :
    create_flag(name, "product", enabled, client_toggle, release_type, token_auth, db_ok)

SpecAdmin == InitAdmin /\ [][NextAdmin]_vars

\* ------------------------------------------------------------ the builder
\* A chain of setter calls on FeatureFlag::builder(); each setter takes the
\* builder by value and returns it with one field assigned.
MaxCalls == 4
ProductIds == {"product"}
BuilderOids == {1}
BuilderDisabled == {<<to_hex(1)>>}

Call(name, arg) == [name |-> name, arg |-> arg]

setter(name, arg, next) ==
  /\ Len(calls) < MaxCalls
  /\ builder' = next
  /\ calls' = Append(calls, Call(name, arg))
  /\ UNCHANGED initial
  /\ UNCHANGED <<engine_vars, server_vars, auth_vars>>

builder_with_oid(oid) == setter("with_oid", oid, with_oid(builder, oid))
builder_with_name(name) == setter("with_name", name, with_name(builder, name))
builder_with_product_id(product_id) ==
  setter("with_product_id", product_id, with_product_id(builder, product_id))
builder_with_enabled(enabled) == setter("with_enabled", enabled, with_enabled(builder, enabled))
builder_with_client_toggle(client_toggle) ==
  setter("with_client_toggle", client_toggle, with_client_toggle(builder, client_toggle))
builder_with_disabled_for(disabled_for) ==
  setter("with_disabled_for", disabled_for, with_disabled_for(builder, disabled_for))
builder_with_release_type(release_type) ==
  setter("with_release_type", release_type, with_release_type(builder, release_type))

NextBuilder ==
  \/ \E oid \in BuilderOids : builder_with_oid(oid)
  \/ \E name \in FlagNames : builder_with_name(name)
  \/ \E product_id \in ProductIds : builder_with_product_id(product_id)
  \/ \E enabled \in BOOLEAN : builder_with_enabled(enabled)
  \/ \E client_toggle \in BOOLEAN : builder_with_client_toggle(client_toggle)
  \/ \E disabled_for \in BuilderDisabled : builder_with_disabled_for(disabled_for)
  \/ \E release_type \in CreatableReleaseTypes : builder_with_release_type(release_type)

SpecBuilder == InitAdmin /\ [][NextBuilder]_vars

\* ------------------------------------------- sequences of hoist and lower
\* A bounded sequence of hoist and lower calls on one flag, with the calls
\* and the flag it started from kept for reference.
SeqFlags ==
  {FeatureFlag(Some(1), "flag", "product", e, FALSE, d, r) :
     e \in BOOLEAN, d \in {<<>>, <<to_hex(1)>>},
     r \in {Global, Limited(<<to_hex(1)>>)}}

InitSeq ==
  /\ flag \in SeqFlags
  /\ prev = flag
  /\ op = [name |-> "none", user_id |-> None]
  /\ ret = None
  /\ lowered = FALSE
  /\ origin = Frame(flag)
  /\ features = <<>>
  /\ req = [r \in 1..NumReqs |-> IdleRequest]
  /\ writes = <<>>
  /\ started = 0
  /\ reply = NoReply
  /\ builder = FeatureFlagBuilder_default
  /\ calls = <<>>
  /\ initial = flag
  /\ InitAuthVars

flag_hoist(user_id) ==
  /\ Len(calls) < MaxCalls
  /\ flag' = FeatureFlag_hoist(flag, user_id)
  /\ calls' = Append(calls, Call("hoist", user_id))
  /\ op' = [name |-> "hoist", user_id |-> user_id]
  /\ prev' = flag
  /\ ret' = None
  /\ lowered' = IF user_id = None THEN FALSE ELSE lowered
  /\ UNCHANGED <<origin, builder, initial>>
  /\ UNCHANGED <<server_vars, auth_vars>>

flag_lower(user_id) ==
  /\ Len(calls) < MaxCalls
  /\ flag' = FeatureFlag_lower(flag, user_id)
  /\ calls' = Append(calls, Call("lower", user_id))
  /\ op' = [name |-> "lower", user_id |-> user_id]
  /\ prev' = flag
  /\ ret' = None
  /\ lowered' = IF user_id = None THEN TRUE ELSE lowered
  /\ UNCHANGED <<origin, builder, initial>>
  /\ UNCHANGED <<server_vars, auth_vars>>

NextSeq ==
  \/ \E user_id \in UserArgs : flag_hoist(user_id)
  \/ \E user_id \in UserArgs : flag_lower(user_id)

SpecSeq == InitSeq /\ [][NextSeq]_vars

\* --------------------------------------------------------- authentication
\* AuthTokens.user_tokens is a function from the user ids that have an entry
\* to their token lists.
Insert(map, key, value) == [k \in DOMAIN map \cup {key} |-> IF k = key THEN value ELSE map[k]]
Remove(map, key) == [k \in DOMAIN map \ {key} |-> map[k]]

\* remove_token that reports the entry but leaves it in the map
remove_token_keeps_entry(user_tokens, user_id) ==
  [user_tokens |-> user_tokens, found |-> user_id \in DOMAIN user_tokens]

\* AuthTokens::add_token: the token is the constant "token"; for a user with
\* an entry the push goes to a copy of the list and the list itself is put back
add_token(user_tokens, user_id) ==
  LET token == "token"
      tokens_new == IF user_id \in DOMAIN user_tokens THEN user_tokens[user_id]
                    ELSE <<token>>
  IN [user_tokens |-> Insert(user_tokens, user_id, tokens_new), token |-> token]

\* AuthTokens::remove_token
remove_token(user_tokens, user_id) ==
  [user_tokens |-> Remove(user_tokens, user_id), found |-> user_id \in DOMAIN user_tokens]

\* AuthTokens::check_for
check_for(user_tokens, user_id, token) ==
  IF user_id \in DOMAIN user_tokens THEN Contains(user_tokens[user_id], token) ELSE FALSE

\* a guard that accepts a token registered for any user
UserAuth_from_request_any_user(user_id, auth_token, user_tokens) ==
  IF user_id = None THEN "NoUserId"
  ELSE IF auth_token = None THEN "NoAuthToken"
  ELSE IF \E u \in DOMAIN user_tokens : check_for(user_tokens, u, auth_token[1])
  THEN "Success"
  ELSE "Invalid"

\* UserAuth::from_request on the two private cookies of the request
UserAuth_from_request(user_id, auth_token, user_tokens) ==
  IF user_id = None THEN "NoUserId"
  ELSE IF auth_token = None THEN "NoAuthToken"
  ELSE IF check_for(user_tokens, user_id[1], auth_token[1]) THEN "Success"
  ELSE "Invalid"

USER_ID == "user_id"
AUTH_TOKEN == "auth_token"
Cookie(name, value) == <<name, value>>

\* the cookies a request can carry: private cookies cannot be forged, so
\* each one is absent or a value the server handed out at some login
Cookies(name) == {None} \cup {Some(c[2]) : c \in {i \in issued : i[1] = name}}

Hashes == {"h1", "h2", "h3", "bad"}

\* the login handler
login(email, hash, db_ok) ==
  /\ LET user == get_user(email, db_ok)
         refused == [op |-> "login", user_id |-> None, auth_token |-> None, status |-> 400]
     IN IF user = None \/ user[1].password_hash # hash \/ user[1].oid = None
        THEN /\ auth' = refused
             /\ UNCHANGED <<tokens, issued, logged>>
        ELSE LET user_id == to_hex(user[1].oid[1])
                 added == add_token(tokens, user_id)
             IN /\ tokens' = added.user_tokens
                /\ issued' = issued \cup {Cookie(USER_ID, user_id), Cookie(AUTH_TOKEN, added.token)}
                /\ logged' = logged \cup {user_id}
                /\ auth' = [op |-> "login", user_id |-> Some(user_id),
                            auth_token |-> Some(added.token), status |-> 202]
  /\ UNCHANGED <<engine_vars, server_vars, builder_vars>>

\* the logout handler
logout(user_id) ==
  /\ IF user_id = None
     THEN /\ auth' = [op |-> "logout", user_id |-> None, auth_token |-> None, status |-> 400]
          /\ UNCHANGED <<tokens, logged>>
     ELSE LET removed == remove_token(tokens, user_id[1])
          IN /\ tokens' = removed.user_tokens
             /\ logged' = logged \ {user_id[1]}
             /\ auth' = [op |-> "logout", user_id |-> user_id, auth_token |-> None,
                         status |-> IF removed.found THEN 202 ELSE 400]
  /\ UNCHANGED issued
  /\ UNCHANGED <<engine_vars, server_vars, builder_vars>>

\* a request to create_product, create_flag or create_user: the UserAuth
\* guard runs first, and the handler body only on Outcome::Success
guarded_request(user_id, auth_token) ==
  /\ LET outcome == UserAuth_from_request(user_id, auth_token, tokens)
     IN auth' = [op |-> "guard", user_id |-> user_id, auth_token |-> auth_token,
                 status |-> IF outcome = "Success" THEN 200 ELSE 400]
  /\ UNCHANGED <<tokens, issued, logged>>
  /\ UNCHANGED <<engine_vars, server_vars, builder_vars>>

NextAuth ==
  \/ \E email \in Emails, hash \in Hashes, db_ok \in BOOLEAN : login(email, hash, db_ok)
  \/ \E user_id \in Cookies(USER_ID) : logout(user_id)
  \/ \E user_id \in Cookies(USER_ID), auth_token \in Cookies(AUTH_TOKEN) :
       guarded_request(user_id, auth_token)

SpecAuth == InitAdmin /\ [][NextAuth]_vars

\* ------------------------------------------------- properties of evaluate
IsEvaluate == op.name = "evaluate"
IsHoist == op.name = "hoist"
IsLower == op.name = "lower"
WithKind(f, k) == f.release_type.kind = k

\* C1: a flag with enabled = false evaluates to false for every user
\* argument (None or Some(u)), whatever the release strategy, the allow-list
\* and disabledFor are.
C1_DisabledIsFalse ==
  ~flag.enabled =>
    /\ \A u \in UserArgs : FeatureFlag_evaluate(flag, u) = FALSE
    /\ IsEvaluate => ret = Some(FALSE)

C1_Witness ==
  /\ IsEvaluate /\ ~flag.enabled /\ ret = Some(FALSE)
  /\ op.user_id # None
  /\ WithKind(flag, "Limited")
  /\ Contains(flag.release_type.allowlist, op.user_id[1])
  /\ ~Contains(flag.disabled_for, op.user_id[1])

\* C2: a user that occurs in disabledFor gets false from evaluate under each
\* of the three release strategies, even when enabled = true and the user is
\* on the strategy's allow-list.
C2_DisabledForIsFalse ==
  /\ \A u \in UserIds :
       Contains(flag.disabled_for, u) => FeatureFlag_evaluate(flag, Some(u)) = FALSE
  /\ (IsEvaluate /\ op.user_id # None /\ Contains(flag.disabled_for, op.user_id[1]))
       => ret = Some(FALSE)

C2_Witness ==
  /\ IsEvaluate /\ flag.enabled /\ ret = Some(FALSE)
  /\ op.user_id # None
  /\ WithKind(flag, "Percentage")
  /\ Contains(flag.release_type.allowlist, op.user_id[1])
  /\ Contains(flag.disabled_for, op.user_id[1])

\* C3: with enabled = true and strategy Limited(allowList), evaluate for
\* Some(u) is true exactly when u is on allowList and not in disabledFor; an
\* empty allow-list gives false for every user.
C3_LimitedMembership ==
  (flag.enabled /\ WithKind(flag, "Limited")) =>
    /\ \A u \in UserIds :
         FeatureFlag_evaluate(flag, Some(u)) =
           (Contains(flag.release_type.allowlist, u) /\ ~Contains(flag.disabled_for, u))
    /\ (IsEvaluate /\ op.user_id # None) =>
         ret = Some(Contains(flag.release_type.allowlist, op.user_id[1])
                    /\ ~Contains(flag.disabled_for, op.user_id[1]))
    /\ (IsEvaluate /\ op.user_id # None /\ flag.release_type.allowlist = <<>>) =>
         ret = Some(FALSE)

C3_Witness ==
  /\ IsEvaluate /\ flag.enabled /\ WithKind(flag, "Limited")
  /\ op.user_id # None
  /\ ret = Some(TRUE)
  /\ flag.disabled_for # <<>>

\* C4: with enabled = true and strategy Global, evaluate for None is true and
\* evaluate for Some(u) is true exactly when u is not in disabledFor.
C4_GlobalIgnoresIdentity ==
  (flag.enabled /\ WithKind(flag, "Global")) =>
    /\ FeatureFlag_evaluate(flag, None) = TRUE
    /\ \A u \in UserIds :
         FeatureFlag_evaluate(flag, Some(u)) = ~Contains(flag.disabled_for, u)
    /\ IsEvaluate =>
         ret = Some(IF op.user_id = None THEN TRUE
                    ELSE ~Contains(flag.disabled_for, op.user_id[1]))

C4_Witness ==
  /\ IsEvaluate /\ flag.enabled /\ WithKind(flag, "Global")
  /\ op.user_id = None
  /\ flag.disabled_for # <<>>
  /\ ret = Some(TRUE)

\* C5: under the Limited and Percentage strategies evaluate for None is
\* false, whatever enabled, the allow-list and disabledFor are.
C5_AnonymousIsFalse ==
  (WithKind(flag, "Limited") \/ WithKind(flag, "Percentage")) =>
    /\ FeatureFlag_evaluate(flag, None) = FALSE
    /\ (IsEvaluate /\ op.user_id = None) => ret = Some(FALSE)

C5_Witness ==
  /\ IsEvaluate /\ op.user_id = None /\ ret = Some(FALSE)
  /\ flag.enabled
  /\ WithKind(flag, "Percentage")
  /\ flag.release_type.fraction = 100
  /\ flag.release_type.allowlist # <<>>
  /\ flag.disabled_for = <<>>

\* C6: evaluate on a flag with strategy Percentage(f, L) returns what it
\* returns on the otherwise identical flag with strategy Limited(L), for
\* every fraction f: the fraction never influences the result.
AsLimited(f) == [f EXCEPT !.release_type = Limited(f.release_type.allowlist)]
AsPercentage(f, fraction) ==
  [f EXCEPT !.release_type = Percentage(fraction, f.release_type.allowlist)]

C6_PercentageIsLimited ==
  /\ WithKind(flag, "Percentage") =>
       /\ \A u \in UserArgs :
            FeatureFlag_evaluate(flag, u) = FeatureFlag_evaluate(AsLimited(flag), u)
       /\ IsEvaluate => ret = Some(FeatureFlag_evaluate(AsLimited(flag), op.user_id))
  /\ WithKind(flag, "Limited") =>
       \A fraction \in Fractions :
         /\ \A u \in UserArgs :
              FeatureFlag_evaluate(AsPercentage(flag, fraction), u)
                = FeatureFlag_evaluate(flag, u)
         /\ IsEvaluate =>
              ret = Some(FeatureFlag_evaluate(AsPercentage(flag, fraction), op.user_id))

C6_Witness ==
  /\ IsEvaluate /\ flag.enabled /\ WithKind(flag, "Percentage")
  /\ flag.release_type.fraction = 100
  /\ op.user_id # None
  /\ ~Contains(flag.release_type.allowlist, op.user_id[1])
  /\ ~Contains(flag.disabled_for, op.user_id[1])
  /\ ret = Some(FALSE)

\* ------------------------------------------------ concurrent hoist / lower
\* r1 and r2 both loaded the flag before either saved, both saves reached
\* the store, r1's first
BothLoadedBeforeEitherSaved(r1, r2) ==
  /\ r1 # r2
  /\ req[r1].pc = "done" /\ req[r1].response = 202 /\ req[r1].seen = 0
  /\ req[r2].pc = "done" /\ req[r2].response = 202 /\ req[r2].seen = 0
  /\ writes = <<r1, r2>>

\* C7: two concurrent hoist/lower requests on the same stored flag run load,
\* mutate, save without locking; when both load before either saves, the
\* stored flag afterwards is the flag as first loaded with only the later
\* writer's mutation applied: the earlier writer's update is lost.
C7_LastWriteWins ==
  \A r1, r2 \in 1..NumReqs :
    BothLoadedBeforeEitherSaved(r1, r2) =>
      /\ req[r1].loaded = req[r2].loaded
      /\ features[1].body = req[r2].flag[1]
      /\ features[1].body = Mutate(req[r2].kind, req[r1].loaded[1], req[r2].user_id)

C7_Witness ==
  \E r1, r2 \in 1..NumReqs :
    /\ BothLoadedBeforeEitherSaved(r1, r2)
    /\ LET original == req[r1].loaded[1]
           first == Mutate(req[r1].kind, original, req[r1].user_id)
           serial == Mutate(req[r2].kind, first, req[r2].user_id)
       IN /\ first # original
          /\ features[1].body # serial
          /\ features[1].body.enabled = original.enabled
          /\ first.enabled # original.enabled

\* --------------------------------------------- properties of hoist and lower
\* C8: hoist with user argument None sets enabled to true for every flag,
\* whatever its previous value, and leaves disabledFor unchanged.
C8_HoistNoneEnables ==
  /\ FeatureFlag_hoist(flag, None).enabled = TRUE
  /\ FeatureFlag_hoist(flag, None).disabled_for = flag.disabled_for
  /\ (IsHoist /\ op.user_id = None) =>
       (flag.enabled = TRUE /\ flag.disabled_for = prev.disabled_for)

C8_Witness ==
  /\ IsHoist /\ op.user_id = None
  /\ ~prev.enabled /\ flag.enabled
  /\ prev.disabled_for # <<>>

\* C9: hoist with user argument Some(u) removes u from disabledFor and
\* changes nothing else: enabled, the allow-list and every other user's
\* membership in disabledFor are unchanged; when u is not in disabledFor the
\* whole flag is unchanged.
HoistSomeFrame(before, after, u) ==
  /\ ~Contains(after.disabled_for, u)
  /\ \A v \in UserIds \ {u} :
       Contains(after.disabled_for, v) <=> Contains(before.disabled_for, v)
  /\ [after EXCEPT !.disabled_for = before.disabled_for] = before
  /\ ~Contains(before.disabled_for, u) => after = before

C9_HoistSomeRemovesOnlyUser ==
  /\ \A u \in UserIds : HoistSomeFrame(flag, FeatureFlag_hoist(flag, Some(u)), u)
  /\ (IsHoist /\ op.user_id # None) => HoistSomeFrame(prev, flag, op.user_id[1])

C9_Witness ==
  /\ IsHoist /\ op.user_id # None
  /\ \E i, j \in 1..Len(prev.disabled_for) :
       i # j /\ prev.disabled_for[i] = op.user_id[1] /\ prev.disabled_for[j] = op.user_id[1]
  /\ \E v \in UserIds \ {op.user_id[1]} : Contains(prev.disabled_for, v)
  /\ ~Contains(flag.disabled_for, op.user_id[1])

\* C10: lower with user argument None sets enabled to false for every flag
\* and leaves disabledFor unchanged; from then on evaluate returns false for
\* every user until a hoist with user argument None occurs.
C10_LowerNoneDisablesUntilHoist ==
  /\ FeatureFlag_lower(flag, None).enabled = FALSE
  /\ FeatureFlag_lower(flag, None).disabled_for = flag.disabled_for
  /\ (IsLower /\ op.user_id = None) =>
       (flag.enabled = FALSE /\ flag.disabled_for = prev.disabled_for)
  /\ lowered =>
       /\ \A u \in UserArgs : FeatureFlag_evaluate(flag, u) = FALSE
       /\ IsEvaluate => ret = Some(FALSE)

C10_Witness ==
  /\ lowered
  /\ IsHoist /\ op.user_id # None
  /\ Contains(prev.disabled_for, op.user_id[1])
  /\ WithKind(flag, "Global")
  /\ ~flag.enabled

\* C11: lower with user argument Some(u) appends u as the last element of
\* disabledFor, keeping the existing elements and their order and leaving
\* enabled unchanged; on an empty disabledFor the result is exactly [u].
LowerSomeAppends(before, after, u) ==
  /\ Len(after.disabled_for) = Len(before.disabled_for) + 1
  /\ after.disabled_for[Len(after.disabled_for)] = u
  /\ \A i \in 1..Len(before.disabled_for) : after.disabled_for[i] = before.disabled_for[i]
  /\ after.enabled = before.enabled
  /\ before.disabled_for = <<>> => after.disabled_for = <<u>>

C11_LowerSomeAppends ==
  /\ \A u \in UserIds : LowerSomeAppends(flag, FeatureFlag_lower(flag, Some(u)), u)
  /\ (IsLower /\ op.user_id # None) => LowerSomeAppends(prev, flag, op.user_id[1])

C11_Witness ==
  /\ IsLower /\ op.user_id # None
  /\ Len(prev.disabled_for) >= 2
  /\ prev.disabled_for[1] # op.user_id[1]
  /\ Contains(prev.disabled_for, op.user_id[1])
  /\ flag.disabled_for = Append(prev.disabled_for, op.user_id[1])

\* C12: hoist with user argument Some(u) is idempotent: for every flag,
\* including one where u occurs several times in disabledFor after repeated
\* lower calls, u does not occur in disabledFor after the first call, and a
\* second hoist with Some(u) leaves the whole flag unchanged.
HoistTwice(f, u) ==
  LET once == FeatureFlag_hoist(f, Some(u))
  IN /\ ~Contains(once.disabled_for, u)
     /\ FeatureFlag_hoist(once, Some(u)) = once

C12_HoistSomeIdempotent ==
  /\ \A u \in UserIds : HoistTwice(flag, u)
  /\ (IsHoist /\ op.user_id # None) =>
       /\ ~Contains(flag.disabled_for, op.user_id[1])
       /\ FeatureFlag_hoist(flag, op.user_id) = flag

C12_Witness ==
  /\ IsHoist /\ op.user_id # None
  /\ Len(prev.disabled_for) = 3
  /\ prev.disabled_for[2] = op.user_id[1]
  /\ prev.disabled_for[3] = op.user_id[1]
  /\ Len(flag.disabled_for) = 1
  /\ FeatureFlag_hoist(flag, op.user_id) = flag

\* C13: lower with Some(u) followed by hoist with Some(u) leaves u absent
\* from disabledFor; when u was not in disabledFor before the lower, u's
\* membership, and the whole flag, are as they were before the lower.
RoundTrip(f, u) == FeatureFlag_hoist(FeatureFlag_lower(f, Some(u)), Some(u))

C13_RoundTripWhenAbsent ==
  /\ \A u \in UserIds :
       /\ ~Contains(RoundTrip(flag, u).disabled_for, u)
       /\ ~Contains(flag.disabled_for, u) => RoundTrip(flag, u) = flag
  /\ (IsLower /\ op.user_id # None) =>
       LET after == FeatureFlag_hoist(flag, op.user_id)
       IN /\ ~Contains(after.disabled_for, op.user_id[1])
          /\ ~Contains(prev.disabled_for, op.user_id[1]) => after = prev

C13_Witness ==
  /\ IsLower /\ op.user_id # None
  /\ ~Contains(prev.disabled_for, op.user_id[1])
  /\ prev.disabled_for # <<>>
  /\ Contains(flag.disabled_for, op.user_id[1])
  /\ FeatureFlag_hoist(flag, op.user_id) = prev

\* C13 as stated: after lower with Some(u) and then hoist with Some(u), u is
\* absent from disabledFor and u's membership in disabledFor is what it was
\* before the lower, for every flag and every user.
C13_RoundTripRestoresMembership ==
  (IsLower /\ op.user_id # None) =>
    LET after == FeatureFlag_hoist(flag, op.user_id)
    IN /\ ~Contains(after.disabled_for, op.user_id[1])
       /\ Contains(after.disabled_for, op.user_id[1])
            <=> Contains(prev.disabled_for, op.user_id[1])

\* C14: after any sequence of hoist and lower calls with any user arguments
\* the flag's release strategy (variant, fraction and allow-list), id, name,
\* productId and clientToggle equal their values before the sequence; only
\* enabled and disabledFor can differ.
C14_StrategyPreserved ==
  /\ Frame(flag) = origin
  /\ Frame(prev) = origin
  /\ \A u \in UserArgs :
       /\ Frame(FeatureFlag_hoist(flag, u)) = origin
       /\ Len(flag.disabled_for) < MaxDisabled => Frame(FeatureFlag_lower(flag, u)) = origin

C14_Witness ==
  /\ IsHoist /\ op.user_id # None
  /\ lowered
  /\ Len(prev.disabled_for) = 3
  /\ flag.disabled_for # prev.disabled_for
  /\ WithKind(flag, "Percentage")
  /\ flag.release_type.allowlist # <<>>
  /\ flag.oid # None
  /\ Frame(flag) = origin

\* C15: evaluate is pure and total: for every flag and every user argument
\* it returns a boolean, there is no error outcome, and it leaves every
\* field of the flag unchanged.
C15_EvaluatePureTotal ==
  /\ \A u \in UserArgs : FeatureFlag_evaluate(flag, u) \in BOOLEAN
  /\ IsEvaluate =>
       /\ flag = prev
       /\ ret # None
       /\ ret[1] \in BOOLEAN
       /\ ret[1] = FeatureFlag_evaluate(prev, op.user_id)
  /\ ~IsEvaluate => ret = None

C15_Witness ==
  /\ IsEvaluate /\ flag = prev
  /\ ret = Some(FALSE)
  /\ flag.enabled
  /\ op.user_id # None
  /\ WithKind(flag, "Limited")
  /\ flag.release_type.allowlist = <<>>
  /\ flag.disabled_for = <<>>

\* C16: two flags that differ only in clientToggle give the same evaluate
\* result for every user argument, under every release strategy.
Toggled(f) == [f EXCEPT !.client_toggle = ~f.client_toggle]

C16_ClientToggleIgnored ==
  /\ \A u \in UserArgs : FeatureFlag_evaluate(flag, u) = FeatureFlag_evaluate(Toggled(flag), u)
  /\ IsEvaluate => ret = Some(FeatureFlag_evaluate(Toggled(flag), op.user_id))

C16_Witness ==
  /\ IsEvaluate /\ op.user_id # None
  /\ flag.client_toggle
  /\ WithKind(flag, "Limited")
  /\ ret = Some(TRUE)
  /\ FeatureFlag_evaluate(Toggled(flag), op.user_id) = TRUE

\* C19: a per-user hoist never grants access: under the Limited and
\* Percentage strategies a user who is not on the allow-list gets false from
\* evaluate after hoist with Some(u), and after any sequence of hoist and
\* lower calls.
NotListed(u) ==
  /\ origin.release_type.kind \in {"Limited", "Percentage"}
  /\ ~Contains(origin.release_type.allowlist, u)

C19_HoistNeverGrants ==
  \A u \in UserIds :
    NotListed(u) =>
      /\ FeatureFlag_evaluate(flag, Some(u)) = FALSE
      /\ FeatureFlag_evaluate(FeatureFlag_hoist(flag, Some(u)), Some(u)) = FALSE
      /\ (IsEvaluate /\ op.user_id = Some(u)) => ret = Some(FALSE)

C19_Witness ==
  /\ IsHoist /\ op.user_id # None
  /\ NotListed(op.user_id[1])
  /\ flag.enabled
  /\ Contains(prev.disabled_for, op.user_id[1])
  /\ ~Contains(flag.disabled_for, op.user_id[1])
  /\ FeatureFlag_evaluate(flag, op.user_id) = FALSE

\* ------------------------------------------- properties of the handlers
\* the stored document read back as a FeatureFlag
AsFlag(doc) == [doc.body EXCEPT !.oid = Some(doc._id)]

\* request r performs its save in this step and the save succeeds
SaveStep(r) ==
  /\ req[r].pc = "update"
  /\ req'[r].pc = "done"
  /\ req'[r].response = 202

\* C17: client_toggle determines whether clients can toggle the flag for
\* themselves: for a stored flag whose client_toggle is false, a hoist or
\* lower request made by a Client account leaves the stored flag unchanged.
C17_ClientToggleGuardsClients ==
  [][\A r \in 1..NumReqs :
       (SaveStep(r) /\ req[r].user_id # None /\ ~features[1].body.client_toggle)
         => features' = features]_vars

\* the change between two flags is the one a request of this kind makes for
\* this account
OwnChange(before, after, kind, user) ==
  IF user.account_type = "Developer"
  THEN /\ [after EXCEPT !.enabled = before.enabled] = before
       /\ after.enabled = (kind = "hoist")
  ELSE LET u == to_hex(user.oid[1])
       IN /\ [after EXCEPT !.disabled_for = before.disabled_for] = before
          /\ \A v \in UserIds \ {u} :
               Contains(after.disabled_for, v) <=> Contains(before.disabled_for, v)
          /\ Contains(after.disabled_for, u) <=> (kind = "lower")

\* C18: a hoist/lower request made by a Developer account applies the global
\* change (user argument None: only enabled changes), and one made by a
\* Client account applies the user-scoped change (Some(that client's id):
\* only that id's membership in disabledFor changes), the change being
\* against the flag as the request loaded it, which is the stored flag when
\* no other request saved since the load; the result is what is stored.
C18_DispatchByAccountType ==
  [][\A r \in 1..NumReqs :
       SaveStep(r) =>
         LET user == get_user(req[r].user_email, TRUE)[1]
         IN /\ req[r].user_id = IF user.account_type = "Developer" THEN None
                                ELSE Some(to_hex(user.oid[1]))
            /\ AsFlag(features'[1]) = req[r].flag[1]
            /\ OwnChange(req[r].loaded[1], AsFlag(features'[1]), req[r].kind, user)
            /\ req[r].seen = Len(writes) => req[r].loaded[1] = AsFlag(features[1])]_vars

C18_Witness ==
  \E r1, r2 \in 1..NumReqs :
    /\ writes = <<r1, r2>>
    /\ req[r1].pc = "done" /\ req[r1].response = 202 /\ req[r1].user_email = "c2"
    /\ req[r2].pc = "done" /\ req[r2].response = 202 /\ req[r2].user_email = "dev"
    /\ req[r1].user_id = Some(to_hex(2))
    /\ req[r2].user_id = None
    /\ req[r2].flag[1].enabled # req[r2].loaded[1].enabled
    /\ AsFlag(features[1]) = req[r2].flag[1]

\* C18 as stated: the change of the stored flag made by the request's save
\* is the global change for a Developer account and the user-scoped change
\* for a Client account.
C18_OnlyOwnChangeOfStored ==
  [][\A r \in 1..NumReqs :
       SaveStep(r) =>
         OwnChange(AsFlag(features[1]), AsFlag(features'[1]), req[r].kind,
                   get_user(req[r].user_email, TRUE)[1])]_vars

\* C20: after any sequence of create_flag requests no two flags in the store
\* have the same (productId, name) pair, so a load by product and name
\* identifies at most one flag.
C20_NamesUniqueWithinProduct ==
  \A i, j \in 1..Len(features) :
    (features[i].body.product_id = features[j].body.product_id
       /\ features[i].body.name = features[j].body.name) => i = j

\* ------------------------------------------------------- identity of flags
\* the flag a load by product and name returns from the present store
Loaded(name) == get_feature_flag(features, "product", name, TRUE)

\* the store after a request of this kind for this user argument loaded the
\* flag f, applied its mutation and saved it under f's id
SavedBack(f, kind, user_id) ==
  update_feature_flag(features, to_hex(f.oid[1]), Mutate(kind, f, user_id), TRUE)

\* C21: a flag's id is set exactly when it has been persisted: the flag a
\* builder yields is stored without an id, a successful create_flag answers
\* with the id the store gave the new document, a flag loaded from the store
\* carries the id of its document, and hoist or lower followed by a save
\* leaves every document's id as it was.
C21_IdIffPersisted ==
  /\ \A i \in 1..Len(features) : features[i].body.oid = None
  /\ reply.status = 201 =>
       /\ features # <<>>
       /\ reply.id = to_hex(features[Len(features)]._id)
  /\ \A name \in FlagNames :
       Loaded(name) # None =>
         /\ Loaded(name)[1].oid # None
         /\ \E i \in 1..Len(features) :
              /\ features[i]._id = Loaded(name)[1].oid[1]
              /\ features[i].body.name = name
         /\ \A kind \in Kinds, user_id \in UserArgs :
              LET saved == SavedBack(Loaded(name)[1], kind, user_id)
              IN /\ saved.ok
                 /\ Len(saved.collection) = Len(features)
                 /\ \A i \in 1..Len(features) :
                      /\ saved.collection[i]._id = features[i]._id
                      /\ features[i]._id = Loaded(name)[1].oid[1] =>
                           saved.collection[i].body.oid = Loaded(name)[1].oid

C21_Witness ==
  /\ reply.status = 201
  /\ Len(features) = 2
  /\ features[1].body.name # features[2].body.name
  /\ reply.id = to_hex(features[2]._id)
  /\ Loaded(features[2].body.name) # None
  /\ Loaded(features[2].body.name)[1].oid = Some(features[2]._id)
  /\ SavedBack(Loaded(features[2].body.name)[1], "lower", None).collection[2].body.oid
       = Some(features[2]._id)

\* ------------------------------------------------- properties of the builder
\* the argument of the last call of this setter, None when it was not called
RECURSIVE LastArg(_, _)
LastArg(cs, name) ==
  IF cs = <<>> THEN None
  ELSE IF cs[Len(cs)].name = name THEN Some(cs[Len(cs)].arg)
  ELSE LastArg(SubSeq(cs, 1, Len(cs) - 1), name)

\* the built field is the last value given to its setter, or else the default
Carries(built, field, name, default) ==
  built[field] = IF LastArg(calls, name) = None THEN default ELSE LastArg(calls, name)[1]

LoadStep(r) == req[r].pc = "idle" /\ req'[r].pc # "idle" /\ req'[r].kind \in Kinds
UserStep(r) == req[r].pc = "get_user" /\ req'[r].pc # "get_user"
UpdateStep(r) == req[r].pc = "update" /\ req'[r].pc # "update"
Answers(r, status) == req'[r].pc = "done" /\ req'[r].response = status

\* the user argument the handler derives from the account it looked up
UserArgOf(user) ==
  IF user.account_type = "Developer" THEN None ELSE Some(to_hex(user.oid[1]))

\* C23: a hoist or lower request answers 400 and writes nothing whenever
\* the lookup finds no flag, the loaded flag has no id, the user email is
\* unknown, or a Client user has no id; in every other case it saves the
\* mutated flag, and it answers 202 exactly when that save succeeds (400
\* otherwise). No step but a successful save changes the store.
C23_BadRequestWithoutWrite ==
  [][\A r \in 1..NumReqs :
       /\ LoadStep(r) =>
            LET found == get_feature_flag(features, req'[r].product_id, req'[r].feature, TRUE)
            IN /\ features' = features /\ writes' = writes
               /\ (found = None \/ found[1].oid = None) => Answers(r, 400)
               /\ ~Answers(r, 400) =>
                    /\ req'[r].pc = "get_user"
                    /\ found # None /\ found[1].oid # None
                    /\ req'[r].loaded = found
                    /\ req'[r].flag_id = to_hex(found[1].oid[1])
       /\ UserStep(r) =>
            LET user == get_user(req[r].user_email, TRUE)
            IN /\ features' = features /\ writes' = writes
               /\ (user = None \/ (user[1].account_type = "Client" /\ user[1].oid = None))
                    => Answers(r, 400)
               /\ ~Answers(r, 400) =>
                    /\ req'[r].pc = "update"
                    /\ user # None
                    /\ req'[r].flag =
                         Some(Mutate(req[r].kind, req[r].loaded[1], UserArgOf(user[1])))
       /\ UpdateStep(r) =>
            /\ Answers(r, 202) \/ Answers(r, 400)
            /\ Answers(r, 202) <=> writes' = Append(writes, r)
            /\ Answers(r, 202) =>
                 features' = replace_one(features, req[r].loaded[1].oid[1], req[r].flag[1])
            /\ Answers(r, 400) => (features' = features /\ writes' = writes)
       /\ (features' # features) => \E q \in 1..NumReqs : UpdateStep(q) /\ Answers(q, 202)]_vars

C23_Witness ==
  \E r1, r2 \in 1..NumReqs :
    /\ r1 # r2
    /\ req[r1].pc = "done" /\ req[r1].response = 400 /\ req[r1].kind = "hoist"
    /\ req[r1].feature = "flag" /\ req[r1].user_email = "nobody"
    /\ req[r2].pc = "done" /\ req[r2].response = 202 /\ req[r2].kind = "lower"
    /\ writes = <<r2>>
    /\ features[1].body = req[r2].flag[1]
    /\ features[1].body.disabled_for # req[r2].loaded[1].disabled_for

\* ------------------------------------------------------- the check request
CheckStep(r) == req[r].pc = "idle" /\ req'[r].pc = "done" /\ req'[r].kind = "check"

\* the documents the store holds for a product and a feature name
StoredFor(product_id, feature) ==
  {i \in 1..Len(features) :
     features[i].body.product_id = product_id /\ features[i].body.name = feature}

\* C26: with the store answering, a check request answers not-found when
\* the store holds no flag for (product_id, feature), otherwise it answers
\* enabled = evaluate(stored flag, user) for the optional user parameter;
\* it never writes to the store.
C26_CheckAnswersFromStore ==
  [][\A r \in 1..NumReqs :
       CheckStep(r) =>
         LET hits == StoredFor(req'[r].product_id, req'[r].feature)
         IN /\ features' = features /\ writes' = writes
            /\ req'[r].db_ok =>
                 IF hits = {} THEN req'[r].response = 404
                 ELSE LET stored == AsFlag(features[CHOOSE i \in hits : \A j \in hits : i <= j])
                      IN /\ req'[r].response = 200
                         /\ req'[r].enabled = Some(FeatureFlag_evaluate(stored, req'[r].user_id))]_vars

\* ------------------------------------------- properties of authentication
AllUserIds == {to_hex(UsersCollection[i]._id) : i \in 1..Len(UsersCollection)}
TokenValues == {"token", "other"}
NoTokenFor(user_tokens, u) == \A t \in TokenValues : ~check_for(user_tokens, u, t)
LoginOf(u) == auth'.op = "login" /\ auth'.user_id = Some(u)

\* C24: the token table's life cycle: after add_token(u) the returned token
\* t satisfies check_for(u, t); remove_token(u) returns true exactly when u
\* has an entry, and after it check_for(u, t) is false for every token t
\* until the next add_token(u); check_for(u, t) is false for a user that
\* never logged in.
C24_TokenLifeCycle ==
  [][/\ \A u \in AllUserIds :
          /\ LoginOf(u) =>
               /\ add_token(tokens, u).user_tokens = tokens'
               /\ check_for(tokens', u, add_token(tokens, u).token)
               /\ auth'.auth_token = Some(add_token(tokens, u).token)
          /\ (auth'.op = "logout" /\ auth'.user_id = Some(u)) =>
               /\ remove_token(tokens, u).found <=> u \in DOMAIN tokens
               /\ auth'.status = 202 <=> u \in DOMAIN tokens
               /\ NoTokenFor(tokens', u)
          /\ (NoTokenFor(tokens, u) /\ ~LoginOf(u)) => NoTokenFor(tokens', u)
          /\ Cookie(USER_ID, u) \notin issued' => NoTokenFor(tokens', u)]_vars

C24_Witness ==
  /\ auth.op = "logout" /\ auth.status = 202
  /\ auth.user_id = Some(to_hex(1))
  /\ Cookie(USER_ID, to_hex(1)) \in issued
  /\ NoTokenFor(tokens, to_hex(1))
  /\ check_for(tokens, to_hex(3), "token")
  /\ NoTokenFor(tokens, to_hex(2))
  /\ Cookie(USER_ID, to_hex(2)) \notin issued

\* C25: a request to a protected endpoint passes the UserAuth guard only if
\* both cookies are present and the token is registered for that user at
\* that moment, which is the case exactly for the users that logged in with
\* no logout since; so a request carrying the cookie values of a user who
\* logged out (and has not logged in again) is rejected.
C25_GuardNeedsLiveLogin ==
  /\ DOMAIN tokens = logged
  /\ \A u \in AllUserIds : check_for(tokens, u, "token") <=> u \in logged
  /\ auth.op = "guard" =>
       /\ auth.status = 200 =>
            /\ auth.user_id # None /\ auth.auth_token # None
            /\ check_for(tokens, auth.user_id[1], auth.auth_token[1])
            /\ auth.user_id[1] \in logged
       /\ (auth.user_id # None /\ auth.user_id[1] \notin logged) => auth.status = 400
       /\ (auth.user_id = None \/ auth.auth_token = None) => auth.status = 400

C25_Witness ==
  /\ auth.op = "guard" /\ auth.status = 400
  /\ auth.user_id = Some(to_hex(3)) /\ auth.auth_token = Some("token")
  /\ Cookie(USER_ID, to_hex(3)) \in issued
  /\ to_hex(3) \notin logged
  /\ to_hex(1) \in logged

\* --------------------------------- independence of the two dimensions
\* the name of the last call made with this user argument, "none" without one
RECURSIVE LastCall(_, _)
LastCall(cs, user_id) ==
  IF cs = <<>> THEN "none"
  ELSE IF cs[Len(cs)].arg = user_id THEN cs[Len(cs)].name
  ELSE LastCall(SubSeq(cs, 1, Len(cs) - 1), user_id)

\* C27: the global switch and the per-user overrides are independent: after
\* any sequence of hoist and lower calls, enabled is determined by the last
\* call with user argument None alone (the initial value without one), and
\* u's membership in disabledFor by the last call with Some(u) alone (the
\* initial membership without one); a hoist with None does not re-enable a
\* user who is in disabledFor.
C27_DimensionsIndependent ==
  /\ flag.enabled = CASE LastCall(calls, None) = "none" -> initial.enabled
                       [] LastCall(calls, None) = "hoist" -> TRUE
                       [] LastCall(calls, None) = "lower" -> FALSE
  /\ \A u \in UserIds :
       Contains(flag.disabled_for, u) =
         CASE LastCall(calls, Some(u)) = "none" -> Contains(initial.disabled_for, u)
           [] LastCall(calls, Some(u)) = "hoist" -> FALSE
           [] LastCall(calls, Some(u)) = "lower" -> TRUE
  /\ (calls # <<>> /\ calls[Len(calls)] = Call("hoist", None)) =>
       /\ flag.disabled_for = prev.disabled_for
       /\ \A u \in UserIds :
            Contains(prev.disabled_for, u) => FeatureFlag_evaluate(flag, Some(u)) = FALSE

C27_Witness ==
  /\ Len(calls) = 4
  /\ calls[1] = Call("lower", Some(to_hex(1)))
  /\ calls[2] = Call("lower", None)
  /\ calls[3] = Call("hoist", Some(to_hex(2)))
  /\ calls[4] = Call("hoist", None)
  /\ ~initial.enabled /\ flag.enabled
  /\ initial.disabled_for = <<>>
  /\ initial.release_type = Limited(<<to_hex(1)>>)
  /\ Contains(flag.disabled_for, to_hex(1))
  /\ FeatureFlag_evaluate(flag, Some(to_hex(1))) = FALSE

\* C28: a per-user operation affects only that user: for all users u and
\* every other user argument v (another user, or None), hoist and lower
\* with Some(u) leave evaluate for v unchanged.
C28_PerUserOnlyThatUser ==
  /\ \A u \in UserIds : \A v \in UserArgs \ {Some(u)} :
       /\ FeatureFlag_evaluate(FeatureFlag_hoist(flag, Some(u)), v) = FeatureFlag_evaluate(flag, v)
       /\ FeatureFlag_evaluate(FeatureFlag_lower(flag, Some(u)), v) = FeatureFlag_evaluate(flag, v)
  /\ ((IsHoist \/ IsLower) /\ op.user_id # None) =>
       \A v \in UserArgs \ {op.user_id} :
         FeatureFlag_evaluate(flag, v) = FeatureFlag_evaluate(prev, v)

C28_Witness ==
  /\ IsLower /\ op.user_id # None
  /\ FeatureFlag_evaluate(prev, op.user_id) = TRUE
  /\ FeatureFlag_evaluate(flag, op.user_id) = FALSE
  /\ FeatureFlag_evaluate(flag, None) = TRUE
  /\ \E v \in UserIds : Some(v) # op.user_id /\ FeatureFlag_evaluate(flag, Some(v)) = TRUE

====
